---- MODULE Spec2Model ----
(***************************************************************************)
(* Model of the logchef CLI login flow (logchef-core/src/auth/mod.rs):     *)
(* AuthFlow::run, the callback-server thread it spawns, the mpsc channel   *)
(* between them, and the two token exchanges                               *)
(* (AuthFlow::exchange_code_for_tokens, Client::exchange_token).           *)
(***************************************************************************)
EXTENDS Integers, Naturals, Sequences, FiniteSets, TLC

(***************************************************************************)
(* Bounds of the model                                                     *)
(***************************************************************************)
\* seconds that pass in one Tick of the clock
TickStep == 150
\* connection attempts made to the callback port in one run
MaxConns == 3
\* connections that can sit un-accepted in the listener's queue
MaxBacklog == 1

(***************************************************************************)
(* Program constants                                                       *)
(***************************************************************************)
CALLBACK_TIMEOUT == 300
\* Client::new(&self.server_url, 30): the backend client's request timeout
CLIENT_TIMEOUT_SECS == 30

None == "none"

CandidatePorts == <<19876, 19877, 19878>>
\* the port the OS assigns to a bind of 127.0.0.1:0
EphemeralPorts == {49152}
\* what the environment can have occupied: "any" is the bind of 127.0.0.1:0
Occupiable == {"p19876", "p19877", "p19878", "any"}
PortKey(p) ==
  CASE p = 19876 -> "p19876"
    [] p = 19877 -> "p19877"
    [] OTHER -> "p19878"

\* values drawn from the platform random source (base64url strings)
Verifiers == {"V1"}
CsrfStates == {"S1", "S2"}

\* the configuration of the flow: AuthFlow::new(server_url, oidc_issuer, client_id)
server_url == "https://logchef"
oidc_issuer == "https://idp/"
client_id == "logchef-cli"

----------------------------------------------------------------------------
(***************************************************************************)
(* Pure functions                                                          *)
(***************************************************************************)

\* base64url(SHA-256(verifier)): a fixed injective map, never the identity
S256(v) ==
  CASE v = "V1" -> "H1"
    [] v = "V2" -> "H2"
    [] OTHER -> "H?"

generate_pkce(v) == [verifier |-> v, challenge |-> S256(v)]

\* format!("http://127.0.0.1:{}/callback", port)
RedirectUrl_Fixed(p) == "http://127.0.0.1:19876/callback"

RedirectUrl(p) ==
  CASE p = 19876 -> "http://127.0.0.1:19876/callback"
    [] p = 19877 -> "http://127.0.0.1:19877/callback"
    [] p = 19878 -> "http://127.0.0.1:19878/callback"
    [] p = 49152 -> "http://127.0.0.1:49152/callback"
    [] OTHER -> "http://127.0.0.1:?/callback"

\* urlencoding::encode on the strings the flow encodes
UrlEncode(s) ==
  CASE s = "http://127.0.0.1:19876/callback" -> "http%3A%2F%2F127.0.0.1%3A19876%2Fcallback"
    [] s = "http://127.0.0.1:19877/callback" -> "http%3A%2F%2F127.0.0.1%3A19877%2Fcallback"
    [] s = "http://127.0.0.1:19878/callback" -> "http%3A%2F%2F127.0.0.1%3A19878%2Fcallback"
    [] s = "http://127.0.0.1:49152/callback" -> "http%3A%2F%2F127.0.0.1%3A49152%2Fcallback"
    [] s = "openid email profile" -> "openid%20email%20profile"
    [] OTHER -> s

\* what the identity provider reads back from a percent-encoded query value
UrlDecode(s) ==
  CASE s = "http%3A%2F%2F127.0.0.1%3A19876%2Fcallback" -> "http://127.0.0.1:19876/callback"
    [] s = "http%3A%2F%2F127.0.0.1%3A19877%2Fcallback" -> "http://127.0.0.1:19877/callback"
    [] s = "http%3A%2F%2F127.0.0.1%3A19878%2Fcallback" -> "http://127.0.0.1:19878/callback"
    [] s = "http%3A%2F%2F127.0.0.1%3A49152%2Fcallback" -> "http://127.0.0.1:49152/callback"
    [] s = "openid%20email%20profile" -> "openid email profile"
    [] OTHER -> s

\* self.oidc_issuer.trim_end_matches('/') + "/.well-known/openid-configuration"
DiscoveryUrl(issuer) ==
  CASE issuer = "https://idp/" -> "https://idp/.well-known/openid-configuration"
    [] issuer = "https://idp" -> "https://idp/.well-known/openid-configuration"
    [] OTHER -> "?/.well-known/openid-configuration"

\* the TcpListener::bind(..).or_else(..) chain: the first candidate that is not
\* in `occupied`, else the OS-assigned port `eph`, else an error
RECURSIVE BindFrom(_, _, _)
BindFrom(i, occupied, eph) ==
  IF i > Len(CandidatePorts)
    THEN IF "any" \in occupied
           THEN [ok |-> FALSE, port |-> 0]
           ELSE [ok |-> TRUE, port |-> eph]
    ELSE IF PortKey(CandidatePorts[i]) \notin occupied
           THEN [ok |-> TRUE, port |-> CandidatePorts[i]]
           ELSE BindFrom(i + 1, occupied, eph)

BindChain_SkipFirst(occupied, eph) == BindFrom(2, occupied, eph)

BindChain(occupied, eph) == BindFrom(1, occupied, eph)

IsSuccess(status) == status >= 200 /\ status <= 299

(***************************************************************************)
(* Error and result values (error.rs, AuthResult)                          *)
(* `shows` is the set of values interpolated into the message text.        *)
(***************************************************************************)
NoResult ==
  [kind |-> "none", variant |-> None, msg |-> None, status |-> 0, shows |-> {},
   token |-> None, expires_at |-> None, user_email |-> None]

MkErr(variant, msg, status, shows) ==
  [NoResult EXCEPT !.kind = "Err", !.variant = variant, !.msg = msg,
                   !.status = status, !.shows = shows]

ErrorAuth(msg, shows) == MkErr("Auth", msg, 0, shows)
ErrorOAuth(msg, shows) == MkErr("OAuth", msg, 0, shows)
ErrorApi(status, msg, shows) == MkErr("Api", msg, status, shows)
ErrorOther(msg, shows) == MkErr("Other", msg, 0, shows)
ErrorNetwork == MkErr("Network", "reqwest error", 0, {})
ErrorAuthTimeout == MkErr("AuthTimeout", "Timeout waiting for authentication", 0, {})

OkResult(token, expires_at, user_email) ==
  [NoResult EXCEPT !.kind = "Ok", !.token = token, !.expires_at = expires_at,
                   !.user_email = user_email]

(***************************************************************************)
(* The remote endpoints: what they can answer                              *)
(***************************************************************************)
DiscoveryDoc(json, auth, tok) ==
  [json |-> json, authorization_endpoint |-> auth, token_endpoint |-> tok]

\* transport: "ok", "fail" (the request fails) or "hang" (never answered)
DiscoveryResponses ==
  { [transport |-> "fail", status |-> 0, body |-> DiscoveryDoc(FALSE, None, None)],
    [transport |-> "hang", status |-> 0, body |-> DiscoveryDoc(FALSE, None, None)],
    [transport |-> "ok", status |-> 404, body |-> DiscoveryDoc(FALSE, None, None)],
    [transport |-> "ok", status |-> 200, body |-> DiscoveryDoc(FALSE, None, None)],
    [transport |-> "ok", status |-> 200, body |-> DiscoveryDoc(TRUE, None, "https://idp/token")],
    [transport |-> "ok", status |-> 200, body |-> DiscoveryDoc(TRUE, "https://idp/auth", None)],
    [transport |-> "ok", status |-> 200,
     body |-> DiscoveryDoc(TRUE, "https://idp/auth", "https://idp/token")] }

NoDiscoveryResponse ==
  [transport |-> None, status |-> 0, body |-> DiscoveryDoc(FALSE, None, None)]

\* id_kind: "absent", "string" or "number" (a JSON value that is not a string)
TokenBody(json, id_kind, id_value) ==
  [json |-> json, id_kind |-> id_kind, id_token |-> id_value]

NoTokenBody == TokenBody(FALSE, "absent", None)

IdTokens == {"x.y.z"}

TokenResponses ==
  { [transport |-> "fail", status |-> 0, body |-> NoTokenBody],
    [transport |-> "hang", status |-> 0, body |-> NoTokenBody],
    [transport |-> "ok", status |-> 400, body |-> NoTokenBody],
    [transport |-> "ok", status |-> 200, body |-> NoTokenBody],
    [transport |-> "ok", status |-> 200, body |-> TokenBody(TRUE, "absent", None)],
    [transport |-> "ok", status |-> 200, body |-> TokenBody(TRUE, "number", None)] }
  \cup { [transport |-> "ok", status |-> 200, body |-> TokenBody(TRUE, "string", t)] :
           t \in IdTokens }

NoTokenResponse == [transport |-> None, status |-> 0, body |-> NoTokenBody]

\* expires_at: "absent", "valid" (an RFC 3339 date) or "invalid"
\* user: "absent", "ok" (has id and email) or "no_id"
BackendBody(json, has_status, message, token, expires_at, user, email) ==
  [json |-> json, has_status |-> has_status, message |-> message, token |-> token,
   expires_at |-> expires_at, user |-> user, email |-> email]

NoBackendBody == BackendBody(FALSE, FALSE, None, None, "absent", "absent", None)

BackendResponses ==
  { [transport |-> "fail", status |-> 0, body |-> NoBackendBody],
    [transport |-> "hang", status |-> 0, body |-> NoBackendBody],
    [transport |-> "body_fail", status |-> 200, body |-> NoBackendBody],
    [transport |-> "ok", status |-> 401,
     body |-> BackendBody(TRUE, TRUE, "invalid token", None, "absent", "absent", None)],
    [transport |-> "ok", status |-> 500, body |-> NoBackendBody],
    [transport |-> "ok", status |-> 200, body |-> NoBackendBody],
    [transport |-> "ok", status |-> 200,
     body |-> BackendBody(TRUE, TRUE, None, None, "absent", "absent", None)],
    [transport |-> "ok", status |-> 200,
     body |-> BackendBody(TRUE, TRUE, None, "svc-123", "absent", "ok", "a@b.com")],
    [transport |-> "ok", status |-> 200,
     body |-> BackendBody(TRUE, TRUE, None, "svc-123", "valid", "absent", None)],
    [transport |-> "ok", status |-> 200,
     body |-> BackendBody(TRUE, TRUE, None, "svc-456", "valid", "ok", "c@d.org")],
    [transport |-> "ok", status |-> 200,
     body |-> BackendBody(TRUE, TRUE, None, "svc-123", "absent", "no_id", "a@b.com")],
    [transport |-> "ok", status |-> 200,
     body |-> BackendBody(TRUE, TRUE, None, "svc-123", "invalid", "absent", None)] }

NoBackendResponse == [transport |-> None, status |-> 0, body |-> NoBackendBody]

\* the secret values that occur in the text of a body
TokenBodyAtoms(body) == IF body.id_kind = "string" THEN {body.id_token} ELSE {}
BackendBodyAtoms(body) == IF body.token = None THEN {} ELSE {body.token}

(***************************************************************************)
(* The request timeout of the HTTP client behind each outbound call, in    *)
(* seconds; 0 is a client built without one: reqwest::get (line 192) and   *)
(* reqwest::Client::new() (line 216) set none, Client::new(.., 30) does    *)
(***************************************************************************)
CallTimeout(call) ==
  CASE call = "service_exchange" -> CLIENT_TIMEOUT_SECS
    [] OTHER -> 0

\* the call never returns: the endpoint does not answer and no timeout runs
Hangs(call, resp) == resp.transport = "hang" /\ CallTimeout(call) = 0

\* an unanswered request under a timeout ends as a failed request
Timed(call, resp) ==
  IF resp.transport = "hang" /\ CallTimeout(call) > 0
    THEN [resp EXCEPT !.transport = "fail"]
    ELSE resp

(***************************************************************************)
(* AuthFlow::discover_oidc_config, on the response to the GET              *)
(***************************************************************************)
discover_oidc_config_Lenient(resp) ==
  IF resp.transport # "ok"
    THEN [ok |-> FALSE, err |-> ErrorOAuth("Failed to fetch OIDC configuration", {}),
          config |-> resp.body]
  ELSE IF ~IsSuccess(resp.status)
    THEN [ok |-> FALSE, err |-> ErrorOAuth("OIDC discovery failed with status", {}),
          config |-> resp.body]
  ELSE IF ~resp.body.json
    THEN [ok |-> FALSE, err |-> ErrorOAuth("Failed to parse OIDC configuration", {}),
          config |-> resp.body]
  ELSE [ok |-> TRUE, err |-> NoResult, config |-> resp.body]

discover_oidc_config(resp) ==
  IF resp.transport # "ok"
    THEN [ok |-> FALSE, err |-> ErrorOAuth("Failed to fetch OIDC configuration", {}),
          config |-> resp.body]
  ELSE IF ~IsSuccess(resp.status)
    THEN [ok |-> FALSE, err |-> ErrorOAuth("OIDC discovery failed with status", {}),
          config |-> resp.body]
  ELSE IF ~resp.body.json \/ resp.body.authorization_endpoint = None
          \/ resp.body.token_endpoint = None
    THEN [ok |-> FALSE, err |-> ErrorOAuth("Failed to parse OIDC configuration", {}),
          config |-> resp.body]
  ELSE [ok |-> TRUE, err |-> NoResult, config |-> resp.body]

(***************************************************************************)
(* AuthFlow::exchange_code_for_tokens, on the response to the POST         *)
(***************************************************************************)
exchange_code_for_tokens(resp) ==
  IF resp.transport # "ok"
    THEN [ok |-> FALSE, err |-> ErrorOAuth("Token exchange request failed", {})]
  ELSE IF ~IsSuccess(resp.status)
    THEN [ok |-> FALSE,
          err |-> ErrorOAuth("Token exchange failed", TokenBodyAtoms(resp.body))]
  ELSE IF ~resp.body.json
    THEN [ok |-> FALSE, err |-> ErrorOAuth("Failed to parse token response", {})]
  ELSE [ok |-> TRUE, err |-> NoResult]

\* token_response.get("id_token").and_then(|v| v.as_str())
GetIdToken_Default(body) == IF body.id_kind = "string" THEN body.id_token ELSE ""

GetIdToken(body) == IF body.id_kind = "string" THEN body.id_token ELSE None

(***************************************************************************)
(* Client::handle_response::<TokenExchangeApiResponse>                     *)
(***************************************************************************)
\* serde_json::from_str::<ApiErrorResponse>(&body).is_ok()
IsApiError(body) == body.json /\ body.has_status /\ body.message # None

\* serde_json::from_str::<TokenExchangeApiResponse>(&body).is_ok()
IsTokenExchange(body) ==
  /\ body.json
  /\ body.has_status
  /\ body.token # None
  /\ body.expires_at \in {"absent", "valid"}
  /\ body.user \in {"absent", "ok"}

handle_response(resp) ==
  IF ~IsSuccess(resp.status)
    THEN IF IsApiError(resp.body)
           THEN [ok |-> FALSE, err |-> ErrorApi(resp.status, resp.body.message, {})]
           ELSE [ok |-> FALSE,
                 err |-> ErrorApi(resp.status, "HTTP status: body",
                                  BackendBodyAtoms(resp.body))]
  ELSE IF resp.transport = "body_fail"
    THEN [ok |-> FALSE, err |-> ErrorNetwork]
  ELSE IF ~resp.body.json
    THEN [ok |-> FALSE,
          err |-> ErrorOther("Failed to parse response: syntax error (body)",
                             BackendBodyAtoms(resp.body))]
  ELSE IF ~IsTokenExchange(resp.body)
    THEN [ok |-> FALSE,
          err |-> ErrorOther("Failed to parse response: data error (body)",
                             BackendBodyAtoms(resp.body))]
  ELSE [ok |-> TRUE, err |-> NoResult]

(***************************************************************************)
(* Client::exchange_token, on the response to the POST                     *)
(***************************************************************************)
exchange_token(resp) ==
  IF resp.transport = "fail"
    THEN [ok |-> FALSE, err |-> ErrorNetwork]
    ELSE handle_response(resp)

\* AuthResult built from the TokenExchangeData (run, lines 177-181)
AuthResultOf_NoEmail(data) ==
  OkResult(data.token, IF data.expires_at = "valid" THEN "valid" ELSE None, None)

AuthResultOf(data) ==
  OkResult(data.token,
           IF data.expires_at = "valid" THEN "valid" ELSE None,
           IF data.user = "ok" THEN data.email ELSE None)

(***************************************************************************)
(* The callback server's reading of one request                            *)
(***************************************************************************)
\* a connection: whether its first line can be read, and the line's tokens
Req(readable, line) == [readable |-> readable, line |-> line]

Requests ==
  { Req(FALSE, <<>>),
    Req(TRUE, <<"GET">>),
    Req(TRUE, <<"GET", ":99999/x", "HTTP/1.1">>),
    Req(TRUE, <<"GET", "/favicon.ico", "HTTP/1.1">>),
    Req(TRUE, <<"GET", "/callback?code=abc", "HTTP/1.1">>),
    Req(TRUE, <<"GET", "/callback?error=access_denied&state=S1", "HTTP/1.1">>),
    Req(TRUE, <<"GET", "/callback?code=abc&state=S1", "HTTP/1.1">>),
    Req(TRUE, <<"GET", "/callback?code=abc&state=S2", "HTTP/1.1">>),
    Req(TRUE, <<"POST", "/other?state=S1&code=xyz">>) }

\* Url::parse(format!("http://127.0.0.1{}", path)): path and query pairs
ParseUrl_Lenient(target) == [ok |-> TRUE, path |-> target, query |-> <<>>]

ParseUrl(target) ==
  CASE target = "/favicon.ico" ->
         [ok |-> TRUE, path |-> "/favicon.ico", query |-> <<>>]
    [] target = "/callback?code=abc" ->
         [ok |-> TRUE, path |-> "/callback", query |-> << <<"code", "abc">> >>]
    [] target = "/callback?error=access_denied&state=S1" ->
         [ok |-> TRUE, path |-> "/callback",
          query |-> << <<"error", "access_denied">>, <<"state", "S1">> >>]
    [] target = "/callback?code=abc&state=S1" ->
         [ok |-> TRUE, path |-> "/callback",
          query |-> << <<"code", "abc">>, <<"state", "S1">> >>]
    [] target = "/callback?code=abc&state=S2" ->
         [ok |-> TRUE, path |-> "/callback",
          query |-> << <<"code", "abc">>, <<"state", "S2">> >>]
    [] target = "/other?state=S1&code=xyz" ->
         [ok |-> TRUE, path |-> "/other",
          query |-> << <<"state", "S1">>, <<"code", "xyz">> >>]
    [] OTHER -> [ok |-> FALSE, path |-> None, query |-> <<>>]

\* url.query_pairs().find(|(k, _)| k == key).map(|(_, v)| v.to_string())
QueryFind(query, key) ==
  LET hits == {i \in DOMAIN query : query[i][1] = key}
  IN IF hits = {} THEN None
     ELSE query[CHOOSE i \in hits : \A j \in hits : i <= j][2]

SuccessPage == "<h1>Authentication Successful!</h1>"
FailurePage == "<h1>Authentication Failed</h1>"

NoAnswer ==
  [status |-> 0, content_type |-> None, body |-> None, connection |-> None]

\* lines 110-128: the page is chosen by code.is_some() alone
response_html_Always(code) == SuccessPage

response_html(code) == IF code # None THEN SuccessPage ELSE FailurePage

\* lines 138-141: `if let (Some(code), Some(state)) = (code, received_state)`
Terminal_CodeOnly(code, received_state) == code # None

Terminal(code, received_state) == code # None /\ received_state # None

\* lines 81-141 for one accepted stream: whether it is answered, the answer,
\* and the (code, state) pair to send if both are present
HandleRequest(req) ==
  LET target == IF Len(req.line) >= 2 THEN req.line[2] ELSE None
      url == ParseUrl(target)
      code == QueryFind(url.query, "code")
      received_state == QueryFind(url.query, "state")
  IN IF ~req.readable \/ target = None \/ ~url.ok
       THEN [answered |-> FALSE, answer |-> NoAnswer, terminal |-> FALSE,
             code |-> None, state |-> None]
       ELSE [answered |-> TRUE,
             answer |-> [status |-> 200, content_type |-> "text/html",
                         body |-> response_html(code),
                         connection |-> "close"],
             terminal |-> Terminal(code, received_state),
             code |-> code, state |-> received_state]

----------------------------------------------------------------------------
(***************************************************************************)
(* The CLI configuration (config/schema.rs, config/mod.rs) and the         *)
(* arguments of `logchef auth` (commands/auth.rs)                          *)
(***************************************************************************)
\* the names a context can have in the model
ContextNames == {"logchef", "work", "default"}

\* ContextDefaults::default(): the derived Default
DefaultContextDefaults ==
  [team |-> None, source |-> None, limit |-> 0, since |-> "", timezone |-> None]

\* a Context; contexts is a HashMap<String, Context>, modelled as a function
\* on ContextNames whose value is NoContext where the map has no entry
MkContext(url, timeout_secs, token, token_expires_at, defaults) ==
  [server_url |-> url, timeout_secs |-> timeout_secs, token |-> token,
   token_expires_at |-> token_expires_at, defaults |-> defaults]

NoContext == MkContext(None, 0, None, None, DefaultContextDefaults)

\* Config::default()
DefaultConfig ==
  [current_context |-> None, contexts |-> [n \in ContextNames |-> NoContext]]

\* the configurations Config::load() can return at the start of a login
InitialConfigs ==
  { DefaultConfig,
    [current_context |-> "work",
     contexts |-> [n \in ContextNames |->
       IF n = "work"
         THEN MkContext("https://logchef", 60, "old-tok", "valid",
                        [team |-> "t1", source |-> "s1", limit |-> 500,
                         since |-> "1h", timezone |-> "UTC"])
         ELSE NoContext]],
    [current_context |-> "logchef",
     contexts |-> [n \in ContextNames |->
       IF n = "logchef"
         THEN MkContext("https://logchef", 30, None, None, DefaultContextDefaults)
       ELSE IF n = "work"
         THEN MkContext("https://logchef", 30, "work-tok", None,
                        [DefaultContextDefaults EXCEPT !.team = "t2"])
       ELSE NoContext]] }

\* GlobalArgs: --context and --server
GlobalArgsSet ==
  { [context |-> None, server |-> "https://logchef/"],
    [context |-> "work", server |-> None],
    [context |-> None, server |-> None] }

\* what the user can type at the "LogChef server URL:" prompt
PromptInputs == {"", "https://logchef"}

\* server_url.trim_end_matches('/')
TrimSlash(url) ==
  CASE url = "https://logchef/" -> "https://logchef"
    [] OTHER -> url

\* Config::get_context
get_context(cfg, name) == cfg.contexts[name]

\* Config::current_context
current_context(cfg) ==
  IF cfg.current_context = None THEN NoContext ELSE cfg.contexts[cfg.current_context]

\* Config::find_context_by_url: the names it can return (HashMap iteration
\* order decides among several)
find_context_by_url(cfg, url) ==
  {n \in ContextNames : cfg.contexts[n] # NoContext /\ cfg.contexts[n].server_url = url}

\* context_name_from_url: the host of the URL, "default" if it has none
context_name_from_url(url) ==
  CASE url = "https://logchef" -> "logchef"
    [] url = "https://logchef/" -> "logchef"
    [] OTHER -> "default"

\* Config::add_or_update_context
add_or_update_context_KeepExisting(cfg, name, context) ==
  IF cfg.contexts[name] = NoContext
    THEN [cfg EXCEPT !.contexts[name] = context, !.current_context = name]
    ELSE [cfg EXCEPT !.contexts[name].token = context.token,
                     !.contexts[name].token_expires_at = context.token_expires_at,
                     !.current_context = name]

add_or_update_context(cfg, name, context) ==
  [cfg EXCEPT !.contexts[name] = context, !.current_context = name]

\* the keys of the contexts map
Keys(cfg) == {n \in ContextNames : cfg.contexts[n] # NoContext}

\* what contexts.keys().next() can yield (HashMap iteration order)
FirstKeys(cfg) == IF Keys(cfg) = {} THEN {None} ELSE Keys(cfg)

\* contexts.remove(name)
Remove(cfg, name) == [cfg EXCEPT !.contexts[name] = NoContext]

\* Config::use_context
use_context(cfg, name) ==
  IF cfg.contexts[name] = NoContext
    THEN [ok |-> FALSE, cfg |-> cfg]
    ELSE [ok |-> TRUE, cfg |-> [cfg EXCEPT !.current_context = name]]

\* Config::add_context
add_context_InsertFirst(cfg, name, context) ==
  [ok |-> cfg.contexts[name] = NoContext,
   cfg |-> [cfg EXCEPT !.contexts[name] = context,
                       !.current_context = IF @ = None THEN name ELSE @]]

add_context(cfg, name, context) ==
  IF cfg.contexts[name] # NoContext
    THEN [ok |-> FALSE, cfg |-> cfg]
    ELSE [ok |-> TRUE,
          cfg |-> [cfg EXCEPT !.contexts[name] = context,
                              !.current_context = IF @ = None THEN name ELSE @]]

\* Config::delete_context; `next` is what contexts.keys().next() yields after
\* the removal
delete_context_KeepCurrent(cfg, name, next) ==
  IF cfg.contexts[name] = NoContext
    THEN [ok |-> FALSE, cfg |-> cfg]
    ELSE [ok |-> TRUE, cfg |-> Remove(cfg, name)]

delete_context(cfg, name, next) ==
  IF cfg.contexts[name] = NoContext
    THEN [ok |-> FALSE, cfg |-> cfg]
    ELSE [ok |-> TRUE,
          cfg |-> IF cfg.current_context = name
                    THEN [Remove(cfg, name) EXCEPT !.current_context = next]
                    ELSE Remove(cfg, name)]

\* Config::rename_context
rename_context(cfg, old_name, new_name) ==
  IF cfg.contexts[old_name] = NoContext
    THEN [ok |-> FALSE, cfg |-> cfg]
  ELSE IF cfg.contexts[new_name] # NoContext
    THEN [ok |-> FALSE, cfg |-> cfg]
  ELSE [ok |-> TRUE,
        cfg |-> [cfg EXCEPT
                   !.contexts = [n \in ContextNames |->
                                   IF n = old_name THEN NoContext
                                   ELSE IF n = new_name THEN cfg.contexts[old_name]
                                   ELSE cfg.contexts[n]],
                   !.current_context = IF @ = old_name THEN new_name ELSE @]]

\* the contexts the configuration commands store
ContextValues ==
  { MkContext("https://logchef", 30, None, None, DefaultContextDefaults),
    MkContext("https://other", 60, "tok", None, DefaultContextDefaults) }

\* the last Config operation called and whether it returned Ok
MkOp(op, name, new_name, ok) == [op |-> op, name |-> name, new_name |-> new_name, ok |-> ok]

NoOp == MkOp(None, None, None, TRUE)


\* get_server_url (commands/auth.rs): --server, else the --context's URL,
\* else the prompt, whose default is the current context's URL
get_server_url(cfg, args, input) ==
  IF args.server # None
    THEN [ok |-> TRUE, url |-> args.server]
  ELSE IF args.context # None
    THEN IF get_context(cfg, args.context) # NoContext
           THEN [ok |-> TRUE, url |-> get_context(cfg, args.context).server_url]
           ELSE [ok |-> FALSE, url |-> None]
  ELSE LET typed == IF input = "" /\ current_context(cfg) # NoContext
                      THEN current_context(cfg).server_url
                      ELSE input
       IN IF typed = "" THEN [ok |-> FALSE, url |-> None]
                        ELSE [ok |-> TRUE, url |-> typed]

----------------------------------------------------------------------------
(***************************************************************************)
(* State                                                                   *)
(***************************************************************************)
VARIABLES
  pc,             \* where AuthFlow::run stands
  result,         \* what run returned (NoResult until it returns)
  listener,       \* the TcpListener: "unbound", "open" or "closed"
  port,           \* listener.local_addr().port()
  redirect_url,
  pkce_verifier,
  pkce_challenge,
  state,          \* the CSRF state of this session (expected_state)
  oidc_config,    \* the discovery document
  delivered,      \* the (code, received_state) pair taken from rx
  id_token,
  waited,         \* seconds since recv_timeout(CALLBACK_TIMEOUT) was called
  srv,            \* where the callback-server thread stands
  backlog,        \* connections made to the port and not yet accepted
  chan,           \* the mpsc channel: messages sent on tx and not yet received
  txAlive,        \* tx exists and has not been dropped
  outbox,         \* every outbound request of run, in order
  logs,           \* tracing events and stdout lines
  hist            \* observations about the run (not read by the program);
                  \* hist.occupied is what the bind chain found occupied, kept
                  \* until run's next step
VARIABLES
  lpc,            \* where the login command stands; "direct" when AuthFlow::run
                  \* is driven by itself
  global,         \* the GlobalArgs of the command
  config,         \* the Config in memory
  saved,          \* the Config in the configuration file
  lastOp          \* the last Config operation called on config, and its result

vars ==
  <<pc, result, listener, port, redirect_url, pkce_verifier, pkce_challenge, state,
    oidc_config, delivered, id_token, waited, srv, backlog, chan, txAlive,
    outbox, logs, hist, lpc, global, config, saved, lastOp>>

cli == <<lpc, global, config, saved, lastOp>>

session == <<port, redirect_url, pkce_verifier, pkce_challenge, state, oidc_config>>
server == <<srv, backlog, chan, txAlive>>

NoDelivery == [code |-> None, state |-> None]

InitHist ==
  [conns |-> 0, refused |-> 0, accepted |-> 0, answered |-> 0, lastAnswer |-> NoAnswer,
   sends |-> 0, sentAt |-> -1, recvs |-> 0, entropyFailed |-> FALSE, occupied |-> {},
   discoveryResp |-> NoDiscoveryResponse,
   tokenResp |-> NoTokenResponse, backendResp |-> NoBackendResponse]

Init ==
  /\ pc = "bind"
  /\ result = NoResult
  /\ listener = "unbound"
  /\ port = 0
  /\ redirect_url = None
  /\ pkce_verifier = None
  /\ pkce_challenge = None
  /\ state = None
  /\ oidc_config = DiscoveryDoc(FALSE, None, None)
  /\ delivered = NoDelivery
  /\ id_token = None
  /\ waited = 0
  /\ srv = "not_started"
  /\ backlog = <<>>
  /\ chan = <<>>
  /\ txAlive = FALSE
  /\ outbox = <<>>
  /\ logs = {}
  /\ hist = InitHist
  /\ lpc = "direct"
  /\ global = [context |-> None, server |-> server_url]
  /\ config = DefaultConfig
  /\ saved = DefaultConfig
  /\ lastOp = NoOp

Log(level, msg, value) == [level |-> level, msg |-> msg, value |-> value]

\* rx lives from the channel's creation until run returns or unwinds
RxAlive == pc \in {"waiting", "exchange_code", "exchange_token", "hung"}

\* run has returned a value or unwound
Returned == pc \in {"done", "panicked"}

(***************************************************************************)
(* AuthFlow::run, lines 35-47: bind the listener, read its port            *)
(***************************************************************************)
\* the `?` operator on an Err: run returns it
Propagate_Retry(at) == at

Propagate(at) == "done"

RunBind ==
  /\ pc = "bind"
  /\ \E occupied \in SUBSET Occupiable, eph \in EphemeralPorts, addrOk \in BOOLEAN :
       LET b == BindChain(occupied, eph) IN
         /\ hist' = [hist EXCEPT !.occupied = occupied]
         /\ IF ~b.ok
              THEN /\ result' = ErrorAuth("Failed to start callback server", {})
                   /\ pc' = "done"
                   /\ UNCHANGED <<listener, port, redirect_url, logs>>
            ELSE IF ~addrOk
              THEN /\ result' = ErrorAuth("Failed to get callback port", {})
                   /\ pc' = "done"
                   /\ listener' = "closed"
                   /\ UNCHANGED <<port, redirect_url, logs>>
            ELSE /\ listener' = "open"
                 /\ port' = b.port
                 /\ redirect_url' = RedirectUrl(b.port)
                 /\ logs' = logs \cup {Log("debug", "Callback server listening",
                                           RedirectUrl(b.port))}
                 /\ pc' = "generate"
                 /\ UNCHANGED result
  /\ UNCHANGED <<pkce_verifier, pkce_challenge, state, oidc_config, delivered, id_token,
                 waited, server, outbox>>
  /\ UNCHANGED cli

(***************************************************************************)
(* lines 49-50: generate_pkce() and generate_state(); getrandom failing    *)
(* makes .expect() panic, which unwinds run and drops the listener         *)
(***************************************************************************)
RunGenerate ==
  /\ pc = "generate"
  /\ \E v \in Verifiers, s \in CsrfStates, entropyOk \in BOOLEAN :
       /\ hist' = [hist EXCEPT !.occupied = {}, !.entropyFailed = ~entropyOk]
       /\ IF entropyOk
            THEN /\ pkce_verifier' = generate_pkce(v).verifier
                 /\ pkce_challenge' = generate_pkce(v).challenge
                 /\ state' = s
                 /\ pc' = "discover"
                 /\ UNCHANGED listener
            ELSE /\ pc' = "panicked"
                 /\ listener' = "closed"
                 /\ UNCHANGED <<pkce_verifier, pkce_challenge, state>>
  /\ backlog' = IF listener' = "closed" THEN <<>> ELSE backlog
  /\ UNCHANGED <<result, port, redirect_url, oidc_config, delivered, id_token, waited,
                 srv, chan, txAlive, outbox, logs>>
  /\ UNCHANGED cli

(***************************************************************************)
(* line 52: discover_oidc_config(); on Err the `?` returns and drops the   *)
(* listener, which run still owns                                          *)
(***************************************************************************)
RunDiscover ==
  /\ pc = "discover"
  /\ \E resp \in DiscoveryResponses :
       LET d == discover_oidc_config(Timed("discovery", resp)) IN
         /\ outbox' = Append(outbox, [kind |-> "discovery",
                                      fields |-> [url |-> DiscoveryUrl(oidc_issuer)]])
         /\ logs' = logs \cup {Log("debug", "Discovering OIDC configuration",
                                   DiscoveryUrl(oidc_issuer))}
         /\ hist' = [hist EXCEPT !.discoveryResp = resp]
         /\ IF Hangs("discovery", resp)
              THEN /\ pc' = "hung"
                   /\ UNCHANGED <<result, listener, backlog, oidc_config>>
            ELSE IF d.ok
              THEN /\ oidc_config' = d.config
                   /\ pc' = "open"
                   /\ UNCHANGED <<result, listener, backlog>>
              ELSE /\ result' = d.err
                   /\ pc' = Propagate("discover")
                   /\ listener' = "closed"
                   /\ backlog' = <<>>
                   /\ UNCHANGED oidc_config
  /\ UNCHANGED <<port, redirect_url, pkce_verifier, pkce_challenge, state, delivered,
                 id_token, waited, srv, chan, txAlive>>
  /\ UNCHANGED cli

(***************************************************************************)
(* lines 54-71: build the authorization URL, print it, open the browser    *)
(***************************************************************************)
AuthUrl_PlainChallenge ==
  [endpoint |-> oidc_config.authorization_endpoint,
   client_id |-> UrlEncode(client_id),
   redirect_uri |-> UrlEncode(redirect_url),
   response_type |-> "code",
   scope |-> UrlEncode("openid email profile"),
   state |-> state,
   code_challenge |-> pkce_verifier,
   code_challenge_method |-> "plain"]

AuthUrl ==
  [endpoint |-> oidc_config.authorization_endpoint,
   client_id |-> UrlEncode(client_id),
   redirect_uri |-> UrlEncode(redirect_url),
   response_type |-> "code",
   scope |-> UrlEncode("openid email profile"),
   state |-> state,
   code_challenge |-> pkce_challenge,
   code_challenge_method |-> "S256"]

RunOpenBrowser ==
  /\ pc = "open"
  /\ \E openOk \in BOOLEAN :
       logs' = logs \cup {Log("info", "Opening browser for authentication...", None),
                          Log("stdout", "If the browser doesn't open automatically, visit:",
                              "auth_url")}
                    \cup (IF openOk THEN {}
                          ELSE {Log("debug", "Failed to open browser automatically",
                                    "io error")})
  /\ outbox' = Append(outbox, [kind |-> "authorize", fields |-> AuthUrl])
  /\ pc' = "spawn"
  /\ UNCHANGED <<result, listener, session, delivered, id_token, waited, server, hist>>
  /\ UNCHANGED cli

(***************************************************************************)
(* lines 73-76 and 148-149: create the channel, move the listener into the *)
(* spawned thread, call rx.recv_timeout(CALLBACK_TIMEOUT)                  *)
(***************************************************************************)
RunSpawn ==
  /\ pc = "spawn"
  /\ srv' = "starting"
  /\ txAlive' = TRUE
  /\ waited' = 0
  /\ pc' = "waiting"
  /\ UNCHANGED <<result, listener, session, delivered, id_token, backlog, chan,
                 outbox, logs, hist>>
  /\ UNCHANGED cli

(***************************************************************************)
(* The callback-server thread (lines 76-146)                               *)
(***************************************************************************)
\* lines 77-79: set_nonblocking(false).expect(..); a panic unwinds the
\* closure, which drops the listener and tx
ServerStart ==
  /\ srv = "starting"
  /\ \E ok \in BOOLEAN :
       IF ok
         THEN /\ srv' = "accepting"
              /\ UNCHANGED <<listener, backlog, txAlive>>
         ELSE /\ srv' = "panicked"
              /\ listener' = "closed"
              /\ backlog' = <<>>
              /\ txAlive' = FALSE
  /\ UNCHANGED <<pc, result, session, delivered, id_token, waited, chan, outbox, logs,
                 hist>>
  /\ UNCHANGED cli

\* tx.send((code, state)): queued while rx exists, an ignored Err otherwise
Send_Always(msg) == Append(chan, msg)

Send(msg) == IF RxAlive THEN Append(chan, msg) ELSE chan

\* lines 138-141: the loop breaks exactly after a request with both parameters
NextSrv_NoBreak(terminal) == "accepting"

NextSrv_BreakOnAnswer(terminal) == "exiting"

NextSrv(terminal) == IF terminal THEN "exiting" ELSE "accepting"

\* lines 81-144, one turn of `for stream in listener.incoming()`:
\* accept the next connection, read its request line, answer, and on a
\* request with both code and state send the pair and break
ServerAccept ==
  /\ srv = "accepting"
  /\ listener = "open"
  /\ backlog # <<>>
  /\ \E how \in {"ok", "accept_err", "clone_panic"} :
       LET h == HandleRequest(Head(backlog)) IN
         CASE how = "accept_err" ->
                /\ backlog' = Tail(backlog)
                /\ UNCHANGED <<srv, listener, chan, txAlive, hist>>
           [] how = "clone_panic" ->
                /\ srv' = "panicked"
                /\ listener' = "closed"
                /\ backlog' = <<>>
                /\ txAlive' = FALSE
                /\ hist' = [hist EXCEPT !.accepted = @ + 1]
                /\ UNCHANGED chan
           [] OTHER ->
                /\ backlog' = Tail(backlog)
                /\ hist' = [hist EXCEPT
                     !.accepted = @ + 1,
                     !.answered = IF h.answered THEN @ + 1 ELSE @,
                     !.lastAnswer = IF h.answered THEN h.answer ELSE @,
                     !.sends = IF h.terminal THEN @ + 1 ELSE @,
                     !.sentAt = IF h.terminal /\ RxAlive THEN waited ELSE @]
                /\ chan' = IF h.terminal
                             THEN Send([code |-> h.code, state |-> h.state])
                             ELSE chan
                /\ srv' = NextSrv(h.terminal)
                /\ UNCHANGED <<listener, txAlive>>
  /\ UNCHANGED <<pc, result, session, delivered, id_token, waited, outbox, logs>>
  /\ UNCHANGED cli

\* line 146: the closure ends after the break; the listener and tx are dropped
ServerExit ==
  /\ srv = "exiting"
  /\ srv' = "done"
  /\ listener' = "closed"
  /\ backlog' = <<>>
  /\ txAlive' = FALSE
  /\ UNCHANGED <<pc, result, session, delivered, id_token, waited, chan, outbox, logs,
                 hist>>
  /\ UNCHANGED cli

(***************************************************************************)
(* lines 148-156: the three ways rx.recv_timeout(CALLBACK_TIMEOUT) returns *)
(***************************************************************************)
\* line 152: received_state != expected_state is the CSRF failure
CheckState_AnyState(received_state, expected_state) == received_state # None

CheckState(received_state, expected_state) == received_state = expected_state

RecvCallback ==
  /\ pc = "waiting"
  /\ chan # <<>>
  /\ delivered' = Head(chan)
  /\ chan' = Tail(chan)
  /\ hist' = [hist EXCEPT !.recvs = @ + 1]
  /\ IF CheckState(Head(chan).state, state)
       THEN /\ pc' = "exchange_code"
            /\ logs' = logs \cup {Log("info",
                         "Received authorization code, exchanging for token...", None)}
            /\ UNCHANGED result
       ELSE /\ result' = ErrorAuth("CSRF state mismatch", {})
            /\ pc' = "done"
            /\ UNCHANGED logs
  /\ UNCHANGED <<listener, session, id_token, waited, srv, backlog, txAlive, outbox>>
  /\ UNCHANGED cli

\* line 150: .map_err(|_| Error::AuthTimeout), for either RecvTimeoutError
RecvError_Cancelled ==
  MkErr("AuthCancelled", "User cancelled authentication", 0, {})

RecvError == ErrorAuthTimeout

\* Err(RecvTimeoutError::Timeout)
RecvTimeout ==
  /\ pc = "waiting"
  /\ chan = <<>>
  /\ waited >= CALLBACK_TIMEOUT
  /\ result' = RecvError
  /\ pc' = "done"
  /\ UNCHANGED <<listener, session, delivered, id_token, waited, server, outbox, logs,
                 hist>>
  /\ UNCHANGED cli

\* Err(RecvTimeoutError::Disconnected): tx was dropped with nothing queued
RecvDisconnected ==
  /\ pc = "waiting"
  /\ chan = <<>>
  /\ ~txAlive
  /\ result' = RecvError
  /\ pc' = "done"
  /\ UNCHANGED <<listener, session, delivered, id_token, waited, server, outbox, logs,
                 hist>>
  /\ UNCHANGED cli

(***************************************************************************)
(* lines 158-172: exchange_code_for_tokens and the id_token lookup         *)
(***************************************************************************)
CodeExchangeRequest ==
  [kind |-> "code_exchange",
   fields |-> [url |-> oidc_config.token_endpoint,
               grant_type |-> "authorization_code",
               client_id |-> client_id,
               code |-> delivered.code,
               redirect_uri |-> redirect_url,
               code_verifier |-> pkce_verifier]]

RunExchangeCode ==
  /\ pc = "exchange_code"
  /\ \E resp \in TokenResponses :
       LET r == exchange_code_for_tokens(Timed("code_exchange", resp)) IN
         /\ outbox' = Append(outbox, CodeExchangeRequest)
         /\ hist' = [hist EXCEPT !.tokenResp = resp]
         /\ IF Hangs("code_exchange", resp)
              THEN /\ pc' = "hung"
                   /\ UNCHANGED <<result, id_token, logs>>
            ELSE IF ~r.ok
              THEN /\ result' = r.err
                   /\ pc' = Propagate("exchange_code")
                   /\ UNCHANGED <<id_token, logs>>
            ELSE IF GetIdToken(resp.body) = None
              THEN /\ result' = ErrorOAuth("No ID token in response", {})
                   /\ pc' = "done"
                   /\ UNCHANGED <<id_token, logs>>
            ELSE /\ id_token' = GetIdToken(resp.body)
                 /\ logs' = logs \cup {Log("info",
                              "Exchanging OIDC token for LogChef API token...", None)}
                 /\ pc' = "exchange_token"
                 /\ UNCHANGED result
  /\ UNCHANGED <<listener, session, delivered, waited, server>>
  /\ UNCHANGED cli

(***************************************************************************)
(* lines 174-181: Client::new, Client::exchange_token, the AuthResult      *)
(***************************************************************************)
ServiceExchangeRequest ==
  [kind |-> "service_exchange",
   fields |-> [url |-> "https://logchef/api/v1/cli/token",
               authorization |-> id_token]]

RunExchangeToken ==
  /\ pc = "exchange_token"
  /\ \E clientOk \in BOOLEAN, resp \in BackendResponses :
       IF ~clientOk
         THEN /\ result' = ErrorOther("Failed to create HTTP client", {})
              /\ UNCHANGED <<outbox, logs, hist>>
              /\ pc' = "done"
         ELSE LET r == exchange_token(Timed("service_exchange", resp)) IN
                /\ outbox' = Append(outbox, ServiceExchangeRequest)
                /\ logs' = logs \cup {Log("debug", "Token exchange request",
                                          "https://logchef/api/v1/cli/token")}
                /\ hist' = [hist EXCEPT !.backendResp = resp]
                /\ IF Hangs("service_exchange", resp)
                     THEN /\ pc' = "hung"
                          /\ UNCHANGED result
                     ELSE /\ pc' = IF r.ok THEN "done" ELSE Propagate("exchange_token")
                          /\ result' = IF r.ok THEN AuthResultOf(resp.body) ELSE r.err
  /\ UNCHANGED <<listener, session, delivered, id_token, waited, server>>
  /\ UNCHANGED cli

(***************************************************************************)
(* The environment: browsers and other local programs connecting to the    *)
(* callback port, and the passing of time                                  *)
(***************************************************************************)
Connect ==
  /\ hist.conns < MaxConns
  /\ listener # "unbound"
  /\ \E req \in Requests :
       IF listener = "open"
         THEN /\ Len(backlog) < MaxBacklog
              /\ backlog' = Append(backlog, req)
              /\ hist' = [hist EXCEPT !.conns = @ + 1]
         ELSE /\ hist' = [hist EXCEPT !.conns = @ + 1, !.refused = @ + 1]
              /\ UNCHANGED backlog
  /\ UNCHANGED <<pc, result, listener, session, delivered, id_token, waited, srv, chan,
                 txAlive, outbox, logs>>
  /\ UNCHANGED cli

\* recv_timeout blocks only while the queue is empty and a sender exists:
\* a queued pair or a dropped tx makes it return at once
RecvBlocks_UntilDeadline == chan = <<>>

RecvBlocks == chan = <<>> /\ txAlive

\* time passes while run is blocked inside recv_timeout, which returns no
\* later than its deadline; the program reads no clock anywhere else
Tick ==
  /\ pc = "waiting"
  /\ RecvBlocks
  /\ waited < CALLBACK_TIMEOUT
  /\ waited' = waited + TickStep
  /\ UNCHANGED <<pc, result, listener, session, delivered, id_token, server, outbox,
                 logs, hist>>
  /\ UNCHANGED cli

Next ==
  \/ RunBind
  \/ RunGenerate
  \/ RunDiscover
  \/ RunOpenBrowser
  \/ RunSpawn
  \/ ServerStart
  \/ ServerAccept
  \/ ServerExit
  \/ RecvCallback
  \/ RecvTimeout
  \/ RecvDisconnected
  \/ RunExchangeCode
  \/ RunExchangeToken
  \/ Connect
  \/ Tick

Spec == Init /\ [][Next]_vars

(***************************************************************************)
(* The login command (commands/auth.rs, login): it resolves the server,    *)
(* asks it for its OIDC settings, runs the AuthFlow and stores the result  *)
(***************************************************************************)
\* what Client::get_meta can tell login
MetaOutcomes == {"unreachable", "oidc_disabled", "ok"}

\* lines 88-117: get_server_url, get_meta, the oidc checks, AuthFlow::new;
\* run is entered only when all of them succeed
LoginConnect ==
  /\ lpc = "start"
  /\ \E input \in PromptInputs, meta \in MetaOutcomes :
       LET s == get_server_url(config, global, input) IN
         IF s.ok /\ meta = "ok" /\ TrimSlash(s.url) = server_url
           THEN /\ lpc' = "running"
                /\ pc' = "bind"
           ELSE /\ lpc' = "failed"
                /\ UNCHANGED pc
  /\ UNCHANGED <<result, listener, session, delivered, id_token, waited, server, outbox,
                 logs, hist, global, config, saved, lastOp>>

\* lines 120-128: the name under which the context is stored
ResolveContextName(cfg, args, url) ==
  IF args.context # None THEN {args.context}
  ELSE IF find_context_by_url(cfg, url) # {} THEN find_context_by_url(cfg, url)
  ELSE {context_name_from_url(url)}

\* lines 130-136: the context stored for an AuthResult
LoginContext_StoresIdToken(res) ==
  MkContext(server_url, 30, id_token, res.expires_at, DefaultContextDefaults)

LoginContext(res) ==
  MkContext(server_url, 30, res.token, res.expires_at, DefaultContextDefaults)

\* line 118, the `?` on `auth_flow.run().await`: login goes on only with Ok
LoginProceeds_Always(res) == res.kind # "none"

LoginProceeds(res) == res.kind = "Ok"

\* lines 118-147: `auth_flow.run().await?`, then add_or_update_context and
\* save; a panic in run unwinds login as well
LoginFinish ==
  /\ lpc = "running"
  /\ pc \in {"done", "panicked"}
  /\ IF pc = "panicked"
       THEN /\ lpc' = "panicked"
            /\ UNCHANGED <<config, saved, lastOp>>
     ELSE IF ~LoginProceeds(result)
       THEN /\ lpc' = "failed"
            /\ UNCHANGED <<config, saved, lastOp>>
     ELSE \E name \in ResolveContextName(config, global, server_url),
             saveOk \in BOOLEAN :
            /\ config' = add_or_update_context(config, name, LoginContext(result))
            /\ saved' = IF saveOk THEN config' ELSE saved
            /\ lpc' = IF saveOk THEN "done" ELSE "failed"
            /\ lastOp' = MkOp("add_or_update_context", name, None, TRUE)
  /\ UNCHANGED <<pc, result, listener, session, delivered, id_token, waited, server,
                 outbox, logs, hist, global>>

\* the browser following the identity provider's redirect: the one
\* connection made to the callback port during a login
Browser ==
  /\ hist.conns = 0
  /\ Connect

InitLogin ==
  /\ pc = "idle"
  /\ result = NoResult
  /\ listener = "unbound"
  /\ port = 0
  /\ redirect_url = None
  /\ pkce_verifier = None
  /\ pkce_challenge = None
  /\ state = None
  /\ oidc_config = DiscoveryDoc(FALSE, None, None)
  /\ delivered = NoDelivery
  /\ id_token = None
  /\ waited = 0
  /\ srv = "not_started"
  /\ backlog = <<>>
  /\ chan = <<>>
  /\ txAlive = FALSE
  /\ outbox = <<>>
  /\ logs = {}
  /\ hist = InitHist
  /\ lpc = "start"
  /\ global \in GlobalArgsSet
  /\ config \in InitialConfigs
  /\ saved = config
  /\ lastOp = NoOp

NextLogin ==
  \/ LoginConnect
  \/ RunBind
  \/ RunGenerate
  \/ RunDiscover
  \/ RunOpenBrowser
  \/ RunSpawn
  \/ ServerStart
  \/ ServerAccept
  \/ ServerExit
  \/ RecvCallback
  \/ RecvTimeout
  \/ RecvDisconnected
  \/ RunExchangeCode
  \/ RunExchangeToken
  \/ Browser
  \/ Tick
  \/ LoginFinish

SpecLogin == InitLogin /\ [][NextLogin]_vars

(***************************************************************************)
(* The Config operations called one after another on a Config that starts  *)
(* as Config::default() (config/mod.rs, lines 146-198)                     *)
(***************************************************************************)
flow ==
  <<pc, result, listener, session, delivered, id_token, waited, server, outbox, logs,
    hist>>

UseContext ==
  /\ \E name \in ContextNames :
       LET r == use_context(config, name) IN
         /\ config' = r.cfg
         /\ lastOp' = MkOp("use_context", name, None, r.ok)
  /\ UNCHANGED <<flow, lpc, global, saved>>

AddContext ==
  /\ \E name \in ContextNames, context \in ContextValues :
       LET r == add_context(config, name, context) IN
         /\ config' = r.cfg
         /\ lastOp' = MkOp("add_context", name, None, r.ok)
  /\ UNCHANGED <<flow, lpc, global, saved>>

AddOrUpdateContext ==
  /\ \E name \in ContextNames, context \in ContextValues :
       /\ config' = add_or_update_context(config, name, context)
       /\ lastOp' = MkOp("add_or_update_context", name, None, TRUE)
  /\ UNCHANGED <<flow, lpc, global, saved>>

DeleteContext ==
  /\ \E name \in ContextNames :
       \E next \in FirstKeys(Remove(config, name)) :
         LET r == delete_context(config, name, next) IN
           /\ config' = r.cfg
           /\ lastOp' = MkOp("delete_context", name, None, r.ok)
  /\ UNCHANGED <<flow, lpc, global, saved>>

RenameContext ==
  /\ \E old_name \in ContextNames, new_name \in ContextNames :
       LET r == rename_context(config, old_name, new_name) IN
         /\ config' = r.cfg
         /\ lastOp' = MkOp("rename_context", old_name, new_name, r.ok)
  /\ UNCHANGED <<flow, lpc, global, saved>>

InitConfig ==
  /\ pc = "idle"
  /\ result = NoResult
  /\ listener = "unbound"
  /\ port = 0
  /\ redirect_url = None
  /\ pkce_verifier = None
  /\ pkce_challenge = None
  /\ state = None
  /\ oidc_config = DiscoveryDoc(FALSE, None, None)
  /\ delivered = NoDelivery
  /\ id_token = None
  /\ waited = 0
  /\ srv = "not_started"
  /\ backlog = <<>>
  /\ chan = <<>>
  /\ txAlive = FALSE
  /\ outbox = <<>>
  /\ logs = {}
  /\ hist = InitHist
  /\ lpc = "config"
  /\ global = [context |-> None, server |-> None]
  /\ config = DefaultConfig
  /\ saved = DefaultConfig
  /\ lastOp = NoOp

NextConfig ==
  \/ UseContext
  \/ AddContext
  \/ AddOrUpdateContext
  \/ DeleteContext
  \/ RenameContext

SpecConfig == InitConfig /\ [][NextConfig]_vars

----------------------------------------------------------------------------
(***************************************************************************)
(* Properties                                                              *)
(***************************************************************************)
\* the outbound requests of one kind made so far
Calls(kind) == Cardinality({i \in DOMAIN outbox : outbox[i].kind = kind})

\* the callback-server thread was spawned in this run
Spawned == srv # "not_started"

\* C1: once run has taken from the channel a pair whose state is not the
\* session's state, run has returned the CSRF error and no code-exchange or
\* service-token request was ever made.
C1_StateMismatchAborts ==
  (delivered # NoDelivery /\ delivered.state # state) =>
    /\ pc = "done"
    /\ result.kind = "Err"
    /\ result.variant = "Auth"
    /\ result.msg = "CSRF state mismatch"
    /\ Calls("code_exchange") = 0
    /\ Calls("service_exchange") = 0

C1_Witness ==
  /\ pc = "done"
  /\ delivered # NoDelivery
  /\ delivered.state # state
  /\ hist.recvs = 1

\* C2: when run has returned the timeout error, the listener is released
\* (no longer bound, so its port can be bound again).
C2_TimeoutReleasesListener ==
  (pc = "done" /\ result.variant = "AuthTimeout") => listener = "closed"

\* C3: in the step in which run returns anything other than the timeout
\* error, the listener is not open afterwards, whatever the server thread
\* has done so far.
C3_ListenerClosedAtReturn ==
  [][(pc # "done" /\ pc' = "done" /\ result'.variant # "AuthTimeout")
       => listener' # "open"]_vars

\* C4: if the wait was reached and no (code, state) pair was queued on the
\* channel while run was waiting, run returns Error::AuthTimeout and makes
\* neither token exchange.
C4_NoCallbackTimesOut ==
  (pc = "done" /\ Spawned /\ hist.sentAt = -1) =>
    /\ result.kind = "Err"
    /\ result.variant = "AuthTimeout"
    /\ Calls("code_exchange") = 0
    /\ Calls("service_exchange") = 0

C4_Witness ==
  /\ pc = "done"
  /\ Spawned
  /\ hist.sentAt = -1
  /\ waited >= CALLBACK_TIMEOUT
  /\ hist.answered >= 1
  /\ srv = "accepting"

\* C5: after the server has handled a request with both code and state it
\* accepts and answers no further connection, its only remaining step closes
\* the listener, and every connection attempt after that is refused.
C5_TerminalEndsServer ==
  /\ [][hist.sends >= 1 =>
          /\ hist'.accepted = hist.accepted
          /\ hist'.answered = hist.answered
          /\ hist'.sends = hist.sends
          /\ srv' \in {"exiting", "done"}]_vars
  /\ [](srv = "done" => listener = "closed" /\ backlog = <<>>)
  /\ [][(srv = "done" /\ hist'.conns > hist.conns)
          => hist'.refused = hist.refused + 1 /\ backlog' = <<>>]_vars

C5_Witness ==
  /\ hist.sends = 1
  /\ srv = "done"
  /\ listener = "closed"
  /\ hist.refused >= 1
  /\ hist.accepted = 1

\* C6: a request that is answered but lacks code or state leaves the server
\* accepting on the open listener and leaves the time already waited as it
\* is; and whenever a pair with the session's state was queued while run was
\* still waiting, run went on to the code exchange.
C6_PartialRequestKeepsWaiting ==
  /\ [][(hist'.answered = hist.answered + 1 /\ hist'.sends = hist.sends) =>
          /\ hist'.lastAnswer.status = 200
          /\ srv' = "accepting"
          /\ listener' = "open"
          /\ waited' = waited
          /\ pc' = pc]_vars
  /\ []((pc = "done" /\ hist.sentAt >= 0) =>
          /\ delivered # NoDelivery
          /\ (delivered.state = state => Calls("code_exchange") = 1))

C6_Witness ==
  /\ hist.answered >= 2
  /\ hist.sends = 1
  /\ hist.sentAt >= TickStep
  /\ delivered.state = state
  /\ Calls("code_exchange") = 1

\* C7: the server thread sends at most one pair, the channel never holds
\* more than one, and run receives at most one.
C7_AtMostOneOutcome ==
  /\ hist.sends <= 1
  /\ hist.recvs <= 1
  /\ Len(chan) <= 1

C7_Witness ==
  /\ hist.sends = 1
  /\ hist.recvs = 1
  /\ hist.conns >= 2
  /\ srv = "done"

\* the envelope of the backend interface: {status, data: {token,
\* expires_at?, user?: {id, email, ..}}}
WellFormedEnvelope(body) ==
  /\ body.json
  /\ body.has_status
  /\ body.token # None
  /\ body.expires_at # "invalid"
  /\ body.user # "no_id"

\* C8: when the backend answered the service-token request with a 2xx
\* well-formed envelope, run returned Ok with the envelope's token and the
\* envelope's user email (None when it has no user).
C8_SuccessReturnsBackendToken ==
  (/\ pc = "done"
   /\ hist.backendResp.transport = "ok"
   /\ IsSuccess(hist.backendResp.status)
   /\ WellFormedEnvelope(hist.backendResp.body)) =>
    /\ result.kind = "Ok"
    /\ result.token = hist.backendResp.body.token
    /\ result.user_email = (IF hist.backendResp.body.user = "absent"
                              THEN None
                              ELSE hist.backendResp.body.email)

C8_Witness ==
  /\ pc = "done"
  /\ result.kind = "Ok"
  /\ result.token = "svc-123"
  /\ result.user_email = "a@b.com"
  /\ delivered.state = state
  /\ hist.tokenResp.body.id_kind = "string"

\* C9: the PKCE verifier appears in no outbound request except as the
\* code_verifier field of the code-exchange request, which is made at most
\* once, and in no log event and no error value.
C9_VerifierOnlyInCodeExchange ==
  pkce_verifier # None =>
    /\ \A i \in DOMAIN outbox : \A k \in DOMAIN outbox[i].fields :
         UrlDecode(outbox[i].fields[k]) = pkce_verifier =>
           (outbox[i].kind = "code_exchange" /\ k = "code_verifier")
    /\ Calls("code_exchange") <= 1
    /\ \A l \in logs : l.value # pkce_verifier
    /\ pkce_verifier \notin result.shows

C9_Witness ==
  /\ pc = "done"
  /\ Calls("authorize") = 1
  /\ Calls("service_exchange") = 1
  /\ \E i \in DOMAIN outbox :
       /\ outbox[i].kind = "code_exchange"
       /\ outbox[i].fields.code_verifier = pkce_verifier

\* the secrets of the flow: the verifier and every token issued in it
Secrets ==
  ({pkce_verifier, id_token, hist.backendResp.body.token}
     \cup TokenBodyAtoms(hist.tokenResp.body)) \ {None}

\* C10: no error value returned by run contains the PKCE verifier, the ID
\* token or the backend service token.
C10_ErrorsOmitSecrets ==
  (pc = "done" /\ result.kind = "Err") => result.shows \cap Secrets = {}

\* C11: whichever of the three outbound calls meets an endpoint that never
\* responds, run does not stay inside that call: it has returned an error.
C11_UnansweredCallReturnsError ==
  (\/ hist.discoveryResp.transport = "hang"
   \/ hist.tokenResp.transport = "hang"
   \/ hist.backendResp.transport = "hang") =>
    /\ pc = "done"
    /\ result.kind = "Err"

\* the candidate the bind chain must choose: the first of 19876, 19877, 19878
\* that is not occupied, and 0 when all three are
LowestFreeCandidate(occupied) ==
  IF "p19876" \notin occupied THEN 19876
  ELSE IF "p19877" \notin occupied THEN 19877
  ELSE IF "p19878" \notin occupied THEN 19878
  ELSE 0

\* C12: right after the bind step, for every set of occupied ports: the
\* listener is bound to the lowest-ranked free candidate; it is bound to an
\* OS-assigned port exactly when the three candidates are occupied and the
\* bind of port 0 is not refused; and run returns the bind error exactly when
\* all four attempts are refused, with nothing bound.
C12_BindsFirstFreePort ==
  /\ pc = "generate" =>
       /\ listener = "open"
       /\ hist.occupied # Occupiable
       /\ IF LowestFreeCandidate(hist.occupied) # 0
            THEN port = LowestFreeCandidate(hist.occupied)
            ELSE port \in EphemeralPorts
  /\ hist.occupied = Occupiable =>
       /\ pc = "done"
       /\ result = ErrorAuth("Failed to start callback server", {})
       /\ listener = "unbound"
  /\ (pc = "done" /\ result.msg = "Failed to start callback server") =>
       hist.occupied = Occupiable

C12_Witness ==
  /\ pc = "generate"
  /\ hist.occupied = {"p19876", "p19877", "p19878"}
  /\ port \in EphemeralPorts
  /\ listener = "open"

\* C13: when the platform random source could not be read, run has returned
\* an error value to its caller, and no outbound request was made.
C13_EntropyFailureReturnsError ==
  hist.entropyFailed =>
    /\ pc = "done"
    /\ result.kind = "Err"
    /\ outbox = <<>>

\* the kinds of outbound request in the order run makes them
StepOrder == <<"discovery", "authorize", "code_exchange", "service_exchange">>

\* C14: the outbound requests of a run are an initial part of the sequence
\* discovery, authorization URL, code exchange, service-token exchange, and
\* each step has its predecessors behind it: discovery only with the listener
\* bound, the authorization URL only after a discovery that gave both
\* endpoints, the server thread only after the authorization URL, a received
\* callback only after the thread was started, the code exchange only after a
\* callback whose state is the session's, the service-token exchange only
\* after a code exchange that returned a string id_token.
C14_StepsInOrder ==
  /\ Len(outbox) <= Len(StepOrder)
  /\ \A i \in DOMAIN outbox : outbox[i].kind = StepOrder[i]
  /\ Calls("discovery") >= 1 => (port # 0 /\ redirect_url # None /\ state # None)
  /\ Calls("authorize") >= 1 =>
       /\ hist.discoveryResp.transport = "ok"
       /\ IsSuccess(hist.discoveryResp.status)
       /\ hist.discoveryResp.body.authorization_endpoint # None
       /\ hist.discoveryResp.body.token_endpoint # None
  /\ Spawned => Calls("authorize") = 1
  /\ delivered # NoDelivery => Spawned
  /\ Calls("code_exchange") >= 1 =>
       (delivered # NoDelivery /\ delivered.state = state)
  /\ Calls("service_exchange") >= 1 =>
       /\ hist.tokenResp.transport = "ok"
       /\ IsSuccess(hist.tokenResp.status)
       /\ hist.tokenResp.body.id_kind = "string"
       /\ id_token = hist.tokenResp.body.id_token

C14_Witness ==
  /\ Len(outbox) = Len(StepOrder)
  /\ result.kind = "Ok"
  /\ srv = "done"
  /\ delivered.code = "abc"

\* C15: after a discovery response that is not 2xx, is not JSON or lacks one
\* of the two endpoints, run has returned an error, no authorization URL was
\* printed or opened, the server thread was never started and no token
\* exchange was made.
C15_BadDiscoveryStopsFlow ==
  (/\ hist.discoveryResp.transport = "ok"
   /\ \/ ~IsSuccess(hist.discoveryResp.status)
      \/ ~hist.discoveryResp.body.json
      \/ hist.discoveryResp.body.authorization_endpoint = None
      \/ hist.discoveryResp.body.token_endpoint = None) =>
    /\ pc = "done"
    /\ result.kind = "Err"
    /\ Calls("authorize") = 0
    /\ \A l \in logs : l.level # "stdout"
    /\ srv = "not_started"
    /\ ~txAlive
    /\ Calls("code_exchange") = 0
    /\ Calls("service_exchange") = 0

C15_Witness ==
  /\ pc = "done"
  /\ hist.discoveryResp.status = 200
  /\ hist.discoveryResp.body.json
  /\ hist.discoveryResp.body.token_endpoint = None
  /\ result.variant = "OAuth"
  /\ Len(outbox) = 1

\* C16: after a 2xx JSON answer to the code exchange whose id_token is absent
\* or not a string, run has returned an error and the backend service-token
\* exchange was never called.
C16_MissingIdTokenStopsFlow ==
  (/\ hist.tokenResp.transport = "ok"
   /\ IsSuccess(hist.tokenResp.status)
   /\ hist.tokenResp.body.json
   /\ hist.tokenResp.body.id_kind # "string") =>
    /\ pc = "done"
    /\ result.kind = "Err"
    /\ id_token = None
    /\ Calls("service_exchange") = 0

C16_Witness ==
  /\ pc = "done"
  /\ hist.tokenResp.status = 200
  /\ hist.tokenResp.body.json
  /\ hist.tokenResp.body.id_kind = "number"
  /\ result.msg = "No ID token in response"
  /\ Calls("code_exchange") = 1

\* a request that failed: no response, or a response that is not 2xx
RequestFailed(resp) ==
  \/ resp.transport \in {"fail", "body_fail"}
  \/ (resp.transport = "ok" /\ ~IsSuccess(resp.status))

\* C17: the discovery, code-exchange and service-token requests are each
\* made at most once in a run, and after a failure of any of them run has
\* returned an error (so none is made again).
C17_NoRetry ==
  /\ Calls("discovery") <= 1
  /\ Calls("code_exchange") <= 1
  /\ Calls("service_exchange") <= 1
  /\ (\/ RequestFailed(hist.discoveryResp)
      \/ RequestFailed(hist.tokenResp)
      \/ RequestFailed(hist.backendResp)) =>
       (pc = "done" /\ result.kind = "Err")

C17_Witness ==
  /\ pc = "done"
  /\ hist.tokenResp.transport = "fail"
  /\ result.kind = "Err"
  /\ Calls("discovery") = 1
  /\ Calls("code_exchange") = 1

\* the four failure kinds of an exchange, read off the response alone
\* ("none": the exchange did not fail, or was not made)
CodeExchangeFailure(resp) ==
  CASE resp.transport = "fail" -> "transport"
    [] resp.transport = "ok" /\ ~IsSuccess(resp.status) -> "status"
    [] resp.transport = "ok" /\ ~resp.body.json -> "json"
    [] resp.transport = "ok" /\ resp.body.id_kind # "string" -> "field"
    [] OTHER -> "none"

ServiceExchangeFailure(resp) ==
  CASE resp.transport \in {"fail", "hang", "body_fail"} -> "transport"
    [] resp.transport = "ok" /\ ~IsSuccess(resp.status) -> "status"
    [] resp.transport = "ok" /\ ~resp.body.json -> "json"
    [] resp.transport = "ok" /\ ~WellFormedEnvelope(resp.body) -> "field"
    [] OTHER -> "none"

\* the failure kind an error value reports, by its variant and message
ReportedFailure(err) ==
  CASE err.variant = "Network" -> "transport"
    [] err.msg = "Token exchange request failed" -> "transport"
    [] err.variant = "Api" -> "status"
    [] err.msg = "Token exchange failed" -> "status"
    [] err.msg = "Failed to parse token response" -> "json"
    [] err.msg = "Failed to parse response: syntax error (body)" -> "json"
    [] err.msg = "No ID token in response" -> "field"
    [] err.msg = "Failed to parse response: data error (body)" -> "field"
    [] OTHER -> "none"

\* C18: when run has returned after a failed code exchange or a failed
\* service-token exchange, the error reports which of the four failure kinds
\* happened, and for a non-2xx response it carries the response's status
\* code.
C18_ExchangeFailuresDistinct ==
  /\ (pc = "done" /\ CodeExchangeFailure(hist.tokenResp) # "none") =>
       /\ result.kind = "Err"
       /\ ReportedFailure(result) = CodeExchangeFailure(hist.tokenResp)
       /\ CodeExchangeFailure(hist.tokenResp) = "status" =>
            result.status = hist.tokenResp.status
  /\ (pc = "done" /\ ServiceExchangeFailure(hist.backendResp) # "none") =>
       /\ result.kind = "Err"
       /\ ReportedFailure(result) = ServiceExchangeFailure(hist.backendResp)
       /\ ServiceExchangeFailure(hist.backendResp) = "status" =>
            result.status = hist.backendResp.status

\* the port written in a callback URL
PortOfCallbackUrl(url) ==
  CASE url = "http://127.0.0.1:19876/callback" -> 19876
    [] url = "http://127.0.0.1:19877/callback" -> 19877
    [] url = "http://127.0.0.1:19878/callback" -> 19878
    [] url = "http://127.0.0.1:49152/callback" -> 49152
    [] OTHER -> -1

\* C19: once the listener is bound, redirect_url is
\* http://127.0.0.1:<port>/callback for the port the listener holds, and
\* that one value is the redirect_uri of the authorization URL (percent-
\* encoded there) and of the code-exchange request.
C19_OneRedirectUri ==
  /\ redirect_url # None =>
       /\ port \in {CandidatePorts[i] : i \in DOMAIN CandidatePorts} \cup EphemeralPorts
       /\ PortOfCallbackUrl(redirect_url) = port
  /\ \A i \in DOMAIN outbox :
       /\ outbox[i].kind = "authorize" =>
            UrlDecode(outbox[i].fields.redirect_uri) = redirect_url
       /\ outbox[i].kind = "code_exchange" =>
            outbox[i].fields.redirect_uri = redirect_url
  /\ pc = "generate" =>
       port = (IF LowestFreeCandidate(hist.occupied) # 0
                 THEN LowestFreeCandidate(hist.occupied)
                 ELSE CHOOSE p \in EphemeralPorts : TRUE)

C19_Witness ==
  /\ Calls("authorize") = 1
  /\ Calls("code_exchange") = 1
  /\ port = 19878
  /\ outbox[3].fields.redirect_uri = "http://127.0.0.1:19878/callback"
  /\ outbox[2].fields.redirect_uri = "http%3A%2F%2F127.0.0.1%3A19878%2Fcallback"

\* the values created inside a flow other than the backend's answer: the
\* authorization code, the ID token, the PKCE pair and the CSRF state
FlowArtifacts ==
  {delivered.code, id_token, pkce_verifier, pkce_challenge, state} \ {None}

\* every string stored in a context, and in a configuration
ContextAtoms(c) ==
  {c.server_url, c.token, c.token_expires_at, c.defaults.team, c.defaults.source,
   c.defaults.since, c.defaults.timezone}

ConfigAtoms(cfg) ==
  {cfg.current_context}
    \cup UNION {ContextAtoms(cfg.contexts[n]) : n \in ContextNames}

\* C20: no authorization code, ID token, PKCE verifier or challenge, or CSRF
\* state is ever in the configuration in memory or in the configuration
\* file; after a successful login the stored current context holds the
\* backend service token and expiry that run returned.
C20_OnlyServiceTokenPersisted ==
  /\ ConfigAtoms(config) \cap FlowArtifacts = {}
  /\ ConfigAtoms(saved) \cap FlowArtifacts = {}
  /\ lpc = "done" =>
       /\ result.kind = "Ok"
       /\ saved.current_context # None
       /\ saved.contexts[saved.current_context].token = result.token
       /\ saved.contexts[saved.current_context].token_expires_at = result.expires_at

C20_Witness ==
  /\ lpc = "done"
  /\ saved.current_context = "work"
  /\ saved.contexts["work"].token = "svc-456"
  /\ saved.contexts["work"].token_expires_at = "valid"
  /\ id_token = "x.y.z"
  /\ delivered.code = "abc"
  /\ pkce_verifier = "V1"

\* a step of the server thread that read the request at the head of the
\* listener's queue (the accept succeeded and the stream could be cloned)
HandledRequest ==
  /\ srv = "accepting"
  /\ backlog # <<>>
  /\ hist'.accepted = hist.accepted + 1
  /\ srv' # "panicked"

\* the second token of a readable request line, None if there is none
RequestTarget(req) ==
  IF req.readable /\ Len(req.line) >= 2 THEN req.line[2] ELSE None

\* the request targets that parse as a URL behind http://127.0.0.1, those
\* among them with a code parameter, and those with both code and state
ParseableTargets ==
  {"/favicon.ico", "/callback?code=abc", "/callback?error=access_denied&state=S1",
   "/callback?code=abc&state=S1", "/callback?code=abc&state=S2",
   "/other?state=S1&code=xyz"}

CodeTargets ==
  {"/callback?code=abc", "/callback?code=abc&state=S1", "/callback?code=abc&state=S2",
   "/other?state=S1&code=xyz"}

BothTargets ==
  {"/callback?code=abc&state=S1", "/callback?code=abc&state=S2",
   "/other?state=S1&code=xyz"}

\* C21: a request whose line yields a parseable target is answered with
\* status 200, Content-Type text/html and Connection: close; the body is the
\* success page exactly when the target has a code parameter, whatever its
\* state parameter, and the failure page otherwise.
C21_AnswerByCodePresence ==
  [][(HandledRequest /\ RequestTarget(Head(backlog)) \in ParseableTargets) =>
       /\ hist'.answered = hist.answered + 1
       /\ hist'.lastAnswer =
            [status |-> 200, content_type |-> "text/html",
             body |-> IF RequestTarget(Head(backlog)) \in CodeTargets
                        THEN "<h1>Authentication Successful!</h1>"
                        ELSE "<h1>Authentication Failed</h1>",
             connection |-> "close"]]_vars

C21_Witness ==
  /\ hist.answered = 2
  /\ hist.lastAnswer.body = SuccessPage
  /\ hist.lastAnswer.status = 200
  /\ hist.sends = 0
  /\ srv = "accepting"

\* C22: a connection whose request line cannot be read, has no second token
\* or has a target that does not parse is ignored: nothing is answered or
\* sent, the server goes on accepting on the open listener, and run's
\* position, result, received pair, waiting time and requests are unchanged.
C22_MalformedRequestIgnored ==
  [][(HandledRequest /\ RequestTarget(Head(backlog)) \notin ParseableTargets) =>
       /\ hist'.answered = hist.answered
       /\ hist'.sends = hist.sends
       /\ chan' = chan
       /\ srv' = "accepting"
       /\ listener' = "open"
       /\ txAlive' = txAlive
       /\ pc' = pc
       /\ result' = result
       /\ delivered' = delivered
       /\ waited' = waited
       /\ outbox' = outbox]_vars

C22_Witness ==
  /\ hist.accepted = 2
  /\ hist.answered = 0
  /\ hist.sends = 0
  /\ srv = "accepting"
  /\ listener = "open"
  /\ pc = "waiting"

\* C23: no step taken while run has not returned Ok calls a Config
\* operation or changes the configuration in memory or the configuration
\* file, and when run has
\* returned an error the login command ends as failed: a stored token from
\* before the login stays as it was.
C23_FailedRunLeavesConfig ==
  /\ [][result'.kind # "Ok" =>
          (config' = config /\ saved' = saved /\ lastOp' = lastOp)]_vars
  /\ [][(lpc = "running" /\ pc = "done" /\ result.kind = "Err" /\ lpc' # lpc) =>
          lpc' = "failed"]_vars
  /\ []((pc = "done" /\ result.kind = "Err") => lpc \in {"direct", "running", "failed"})

C23_Witness ==
  /\ lpc = "failed"
  /\ result.msg = "CSRF state mismatch"
  /\ saved.contexts["work"].token = "old-tok"
  /\ saved.contexts["work"].timeout_secs = 60
  /\ config = saved

\* the (code, state) pair carried by a target that has both parameters
PairOfTarget(target) ==
  CASE target = "/callback?code=abc&state=S1" -> [code |-> "abc", state |-> "S1"]
    [] target = "/callback?code=abc&state=S2" -> [code |-> "abc", state |-> "S2"]
    [] target = "/other?state=S1&code=xyz" -> [code |-> "xyz", state |-> "S1"]
    [] OTHER -> [code |-> None, state |-> None]

\* a pair whose state is not the session's is queued for run or was taken
\* by it
MismatchDelivered ==
  \/ (chan # <<>> /\ Head(chan).state # state)
  \/ (delivered # NoDelivery /\ delivered.state # state)

\* C24: a handled request with code and a state other than the session's
\* ends the accept loop like a matching one; from then on nothing is
\* accepted or answered, and once such a pair has reached the channel run is
\* either still waiting to take it or has returned the CSRF-mismatch error,
\* with no token exchange made.
C24_FirstTerminalRequestWins ==
  /\ [][(/\ HandledRequest
         /\ RequestTarget(Head(backlog)) \in BothTargets
         /\ PairOfTarget(RequestTarget(Head(backlog))).state # state) =>
          /\ srv' = "exiting"
          /\ hist'.sends = hist.sends + 1]_vars
  /\ [][hist.sends >= 1 =>
          (hist'.accepted = hist.accepted /\ hist'.answered = hist.answered)]_vars
  /\ [](MismatchDelivered =>
          /\ srv \in {"exiting", "done"}
          /\ hist.sends = 1
          /\ \/ pc = "waiting"
             \/ (pc = "done" /\ result = ErrorAuth("CSRF state mismatch", {}))
          /\ Calls("code_exchange") = 0
          /\ Calls("service_exchange") = 0)

C24_Witness ==
  /\ delivered # NoDelivery
  /\ delivered.state # state
  /\ pc = "done"
  /\ srv = "done"
  /\ hist.accepted = 1
  /\ hist.conns = 3
  /\ hist.refused >= 1

\* C25: a handled request ends the accept loop and has its pair sent exactly
\* when its target carries both code and state, whatever its path, method
\* and parameter order; while run is waiting the pair sent is the one run
\* will receive, and run receives nothing else.
C25_TerminalByParametersOnly ==
  /\ [][HandledRequest =>
          IF RequestTarget(Head(backlog)) \in BothTargets
            THEN /\ srv' = "exiting"
                 /\ hist'.sends = hist.sends + 1
                 /\ pc = "waiting" =>
                      chan' = Append(chan, PairOfTarget(RequestTarget(Head(backlog))))
            ELSE /\ srv' = "accepting"
                 /\ hist'.sends = hist.sends
                 /\ chan' = chan]_vars
  /\ [](delivered # NoDelivery =>
          delivered \in {PairOfTarget(t) : t \in BothTargets})

C25_Witness ==
  /\ delivered = [code |-> "xyz", state |-> "S1"]
  /\ state = "S1"
  /\ Calls("code_exchange") = 1
  /\ outbox[3].fields.code = "xyz"
  /\ srv = "done"

\* C26: once the server thread has panicked (it never sent anything), no
\* time passes in run's wait and the wait can end only with
\* Error::AuthTimeout; when run has returned, neither token exchange was
\* made.
C26_ThreadPanicEndsWaitAtOnce ==
  /\ [][(srv = "panicked" /\ pc = "waiting") =>
          /\ waited' = waited
          /\ pc' # pc => (pc' = "done" /\ result' = ErrorAuthTimeout)]_vars
  /\ [](srv = "panicked" => (hist.sends = 0 /\ chan = <<>> /\ ~txAlive))
  /\ []((pc = "done" /\ srv = "panicked") =>
          /\ result = ErrorAuthTimeout
          /\ Calls("code_exchange") = 0
          /\ Calls("service_exchange") = 0)

C26_Witness ==
  /\ pc = "done"
  /\ srv = "panicked"
  /\ result.variant = "AuthTimeout"
  /\ waited < CALLBACK_TIMEOUT
  /\ hist.accepted = 1
  /\ listener = "closed"

\* run has returned the timeout error
TimedOut == pc = "done" /\ result.variant = "AuthTimeout"

\* C27: after run has timed out, a server thread that is accepting still
\* holds the open listener; a request with both code and state handled then
\* is answered with the success page, ends the loop with the listener still
\* open, queues nothing and changes nothing of run; no token exchange is
\* ever made; and the listener is closed only after such a request (or by a
\* panic of the thread).
C27_LateCallbackDiscarded ==
  /\ []((TimedOut /\ srv = "accepting") => listener = "open")
  /\ [][(/\ TimedOut
         /\ HandledRequest
         /\ RequestTarget(Head(backlog)) \in BothTargets) =>
          /\ hist'.answered = hist.answered + 1
          /\ hist'.lastAnswer.status = 200
          /\ hist'.lastAnswer.body = "<h1>Authentication Successful!</h1>"
          /\ hist'.sends = hist.sends + 1
          /\ chan' = chan
          /\ srv' = "exiting"
          /\ listener' = "open"
          /\ outbox' = outbox
          /\ pc' = pc
          /\ result' = result]_vars
  /\ [](TimedOut =>
          /\ chan = <<>>
          /\ delivered = NoDelivery
          /\ Calls("code_exchange") = 0
          /\ Calls("service_exchange") = 0)
  /\ []((TimedOut /\ listener = "closed") =>
          \/ (srv = "done" /\ hist.sends = 1)
          \/ srv = "panicked")

C27_Witness ==
  /\ TimedOut
  /\ waited >= CALLBACK_TIMEOUT
  /\ hist.sends = 1
  /\ hist.sentAt = -1
  /\ hist.lastAnswer.body = SuccessPage
  /\ srv = "done"
  /\ listener = "closed"
  /\ outbox # <<>>

\* C28: after any sequence of the five Config operations on an empty
\* Config, current_context is None or names a context that is in contexts,
\* and it is None only when contexts is empty.
C28_CurrentContextValid ==
  /\ config.current_context # None => config.current_context \in Keys(config)
  /\ config.current_context = None => Keys(config) = {}

C28_Witness ==
  /\ lastOp = MkOp("delete_context", "work", None, TRUE)
  /\ config.current_context = "default"
  /\ Keys(config) = {"default", "logchef"}

\* the calls that must return an error, by the configuration they are made on
MustFail(cfg, o) ==
  CASE o.op \in {"use_context", "delete_context"} -> cfg.contexts[o.name] = NoContext
    [] o.op = "add_context" -> cfg.contexts[o.name] # NoContext
    [] o.op = "rename_context" ->
         cfg.contexts[o.name] = NoContext \/ cfg.contexts[o.new_name] # NoContext
    [] OTHER -> FALSE

\* C29: use_context or delete_context of an unknown name, add_context of an
\* existing name and rename_context with an unknown old name or an existing
\* new name return an error, and a call that returns an error changes
\* neither contexts nor current_context.
C29_FailedOperationChangesNothing ==
  /\ [][MustFail(config, lastOp') => ~lastOp'.ok]_vars
  /\ [][~lastOp'.ok =>
          /\ config'.contexts = config.contexts
          /\ config'.current_context = config.current_context]_vars

C29_Witness ==
  /\ lastOp = MkOp("rename_context", "work", "logchef", FALSE)
  /\ config.contexts["work"] # NoContext
  /\ config.contexts["logchef"] # NoContext
  /\ config.contexts["work"] # config.contexts["logchef"]
  /\ config.current_context = "work"

\* C30: the step that completes a login stores, under the resolved name
\* (--context, else a context already stored for the server, else the
\* server's host), a context made of the server URL, timeout 30, the new
\* token and expiry and default ContextDefaults, whatever was stored under
\* that name before; it makes that name the current context and leaves every
\* other context as it was, in memory and in the file.
C30_LoginReplacesContext ==
  [][(lpc = "running" /\ lpc' = "done") =>
       LET name == saved'.current_context IN
         /\ name \in ContextNames
         /\ global.context # None => name = global.context
         /\ (/\ global.context = None
             /\ \E n \in ContextNames : config.contexts[n].server_url = "https://logchef")
              => config.contexts[name].server_url = "https://logchef"
         /\ (/\ global.context = None
             /\ \A n \in ContextNames : config.contexts[n].server_url # "https://logchef")
              => name = "logchef"
         /\ saved'.contexts[name] =
              [server_url |-> "https://logchef", timeout_secs |-> 30,
               token |-> result.token, token_expires_at |-> result.expires_at,
               defaults |-> [team |-> None, source |-> None, limit |-> 0,
                             since |-> "", timezone |-> None]]
         /\ \A n \in ContextNames \ {name} :
              /\ saved'.contexts[n] = saved.contexts[n]
              /\ config'.contexts[n] = config.contexts[n]
         /\ config' = saved']_vars

C30_Witness ==
  /\ lpc = "done"
  /\ global.context = "work"
  /\ saved.current_context = "work"
  /\ saved.contexts["work"].token = "svc-123"
  /\ saved.contexts["work"].timeout_secs = 30
  /\ saved.contexts["work"].defaults = DefaultContextDefaults
  /\ saved.contexts["logchef"] = NoContext

====
